---------------------------- MODULE Spec2Model ----------------------------
(***************************************************************************)
(* A model of src/compiler/translator/gen_builtin_symbols.py: the parser   *)
(* of the built-in function declarations, the type model, the expansion of *)
(* generic declarations, the assignment of identities and the assembly of  *)
(* the generated symbol table.                                             *)
(*                                                                         *)
(* Python dicts are functions whose DOMAIN is the set of keys present, so  *)
(* that "key in dict" is "key \in DOMAIN dict".  An OrderedDict is a       *)
(* record [keys, val]: the keys in insertion order and the mapping.        *)
(* Strings are strings: names are built with \o as the code builds them.   *)
(***************************************************************************)
EXTENDS Integers, Sequences, FiniteSets, TLC

(***************************************************************************)
(* Bounds of the model.                                                    *)
(***************************************************************************)
\* the number of lines of an input
MaxLines == 7
\* the number of GROUP BEGIN lines of an input
MaxGroups == 2
\* the number of function declaration lines of an input
MaxFunctions == 2
\* the number of parameters of a declaration drawn for the expansion alone
MaxParams == 2

\* the characters of a function name
MaxNameLen == 2

(***************************************************************************)
(* OrderedDict (collections.OrderedDict): insertion-ordered keys.          *)
(***************************************************************************)
OD_Empty == [keys |-> <<>>, val |-> <<>>]

OD_Has(d, k) == k \in DOMAIN d.val

\* d[k] = v: a new key goes last, an existing key keeps its place
OD_Set(d, k, v) ==
    IF OD_Has(d, k)
    THEN [d EXCEPT !.val = (k :> v) @@ d.val]
    ELSE [keys |-> Append(d.keys, k), val |-> (k :> v) @@ d.val]

(***************************************************************************)
(* The type model: class TType.                                            *)
(* A type token is [q, t]: the text q \o t, q one of "", "out ", "inout ". *)
(***************************************************************************)
basic_type_map ==
    [float |-> "Float", int |-> "Int", uint |-> "UInt", bool |-> "Bool",
     void |-> "Void", atomic_uint |-> "AtomicCounter",
     yuvCscStandardEXT |-> "YuvCscStandardEXT"]

basic_type_prefix_map ==
    ("" :> "Float") @@ ("i" :> "Int") @@ ("u" :> "UInt") @@ ("b" :> "Bool")
    @@ ("v" :> "Void")

\* int(group) of a matched digit
IntOf == ("2" :> 2) @@ ("3" :> 3) @@ ("4" :> 4)

\* str.lower() of the group gen_re matches
Lower == ("" :> "") @@ ("I" :> "i") @@ ("U" :> "u") @@ ("B" :> "b")

\* the texts that may follow "sampler", "gsampler" and "gimage" in a token
KindSuffixes == {"2D", "3D", "Cube", "2DArray"}

\* vec_re = ^([iub]?)vec([234]?)$ : the groups of the match, if any
vec_re(t) ==
    {g \in {"", "i", "u", "b"} \X {"", "2", "3", "4"} : g[1] \o "vec" \o g[2] = t}

\* mat_re = ^mat([234])(x([234]))?$ : groups 1 and 3 ("" when absent)
mat_re(t) ==
    {g \in {"2", "3", "4"} \X {"", "2", "3", "4"} :
        "mat" \o g[1] \o (IF g[2] = "" THEN "" ELSE "x" \o g[2]) = t}

\* gen_re = ^gen([IUB]?)Type$
gen_re(t) == {g \in {"", "I", "U", "B"} : "gen" \o g \o "Type" = t}

\* glsl_header_type.startswith(word), and the text after it
StartsWith(t, word) == \E s \in KindSuffixes : t = word \o s

Rest(t, word) == CHOOSE s \in KindSuffixes : t = word \o s

\* TType.parse_type raises 'Unrecognized type'
Unrecognized(t) ==
    /\ t \notin DOMAIN basic_type_map
    /\ vec_re(t) = {}
    /\ mat_re(t) = {}
    /\ gen_re(t) = {}
    /\ ~StartsWith(t, "sampler")
    /\ ~StartsWith(t, "gsampler")
    /\ ~StartsWith(t, "gimage")
    /\ t \notin {"gvec4", "gvec3"}

\* TType.parse_type on a token without qualifier
ParseBase(t) ==
    IF t \in DOMAIN basic_type_map THEN [basic |-> basic_type_map[t]]
    ELSE IF vec_re(t) # {} THEN
        LET g == CHOOSE m \in vec_re(t) : TRUE IN
        IF g[2] = ""
        THEN [basic |-> basic_type_prefix_map[g[1]], genType |-> "vec"]
        ELSE [basic |-> basic_type_prefix_map[g[1]], primarySize |-> IntOf[g[2]]]
    ELSE IF mat_re(t) # {} THEN
        LET g == CHOOSE m \in mat_re(t) : TRUE IN
        IF g[2] = ""
        THEN [basic |-> "Float", primarySize |-> IntOf[g[1]],
              secondarySize |-> IntOf[g[1]]]
        ELSE [basic |-> "Float", primarySize |-> IntOf[g[1]],
              secondarySize |-> IntOf[g[2]]]
    ELSE IF gen_re(t) # {} THEN
        LET g == CHOOSE m \in gen_re(t) : TRUE IN
        [basic |-> basic_type_prefix_map[Lower[g]], genType |-> "yes"]
    ELSE IF StartsWith(t, "sampler") THEN
        [basic |-> "Sampler" \o Rest(t, "sampler")]
    ELSE IF StartsWith(t, "gsampler") THEN
        [basic |-> "Sampler" \o Rest(t, "gsampler"), genType |-> "sampler_or_image"]
    ELSE IF StartsWith(t, "gimage") THEN
        [basic |-> "Image" \o Rest(t, "gimage"), genType |-> "sampler_or_image"]
    ELSE IF t = "gvec4" THEN [primarySize |-> 4, genType |-> "sampler_or_image"]
    ELSE [primarySize |-> 3, genType |-> "sampler_or_image"]

\* TType.parse_type: the 'out ' and 'inout ' prefixes set the qualifier
parse_type(tok) ==
    IF tok.q = "out " THEN ("qualifier" :> "Out") @@ ParseBase(tok.t)
    ELSE IF tok.q = "inout " THEN ("qualifier" :> "InOut") @@ ParseBase(tok.t)
    ELSE ParseBase(tok.t)

\* TType.normalize: the defaults of the fields a type does not set
normalize(data) ==
    data @@ [primarySize |-> 1, secondarySize |-> 1, precision |-> "Undefined",
             qualifier |-> "Global"]

\* TType.__init__
TType(glsl_header_type) == normalize(glsl_header_type)

is_vector(data) == data.primarySize > 1 /\ data.secondarySize = 1

is_matrix(data) == data.secondarySize > 1

basic_mangled_names ==
    [Float |-> "f", Int |-> "i", UInt |-> "u", Bool |-> "b",
     YuvCscStandardEXT |-> "y",
     Sampler2D |-> "s2", Sampler3D |-> "s3", SamplerCube |-> "sC",
     Sampler2DArray |-> "sA", SamplerExternalOES |-> "sX",
     SamplerExternal2DY2YEXT |-> "sY", Sampler2DRect |-> "sR",
     Sampler2DMS |-> "sM",
     ISampler2D |-> "is2", ISampler3D |-> "is3", ISamplerCube |-> "isC",
     ISampler2DArray |-> "isA", ISampler2DMS |-> "isM",
     USampler2D |-> "us2", USampler3D |-> "us3", USamplerCube |-> "usC",
     USampler2DArray |-> "usA", USampler2DMS |-> "usM",
     Sampler2DShadow |-> "s2s", SamplerCubeShadow |-> "sCs",
     Sampler2DArrayShadow |-> "sAs",
     Image2D |-> "I2", IImage2D |-> "iI2", UImage2D |-> "uI2",
     Image3D |-> "I3", IImage3D |-> "iI3", UImage3D |-> "uI3",
     Image2DArray |-> "IA", IImage2DArray |-> "iIA", UImage2DArray |-> "uIA",
     ImageCube |-> "Ic", IImageCube |-> "iIc", UImageCube |-> "uIc",
     AtomicCounter |-> "a"]

\* TType.get_mangled_name raises KeyError: no 'basic', or one without a code
MangleRaises(data) ==
    \/ "basic" \notin DOMAIN data
    \/ data.basic \notin DOMAIN basic_mangled_names

\* TType.get_mangled_name
get_mangled_name(data, separator) ==
    (IF is_matrix(data)
        THEN ToString(data.primarySize) \o ToString(data.secondarySize)
     ELSE IF data.primarySize > 1 THEN ToString(data.primarySize)
     ELSE "")
    \o basic_mangled_names[data.basic] \o separator

\* TType.get_statictype_string: the fields the template is filled with
get_statictype_string(data) ==
    "StaticType::Get<Ebt" \o data.basic \o ", Ebp" \o data.precision
    \o ", Evq" \o data.qualifier \o ", " \o ToString(data.primarySize)
    \o ", " \o ToString(data.secondarySize) \o ">()"

FamilyBasic == ("" :> "Float") @@ ("I" :> "Int") @@ ("U" :> "UInt")

\* TType.specific_sampler_or_image_type
specific_sampler_or_image_type(data, basic_type_prefix) ==
    IF "genType" \in DOMAIN data THEN
        IF "basic" \notin DOMAIN data
        THEN TType([basic |-> FamilyBasic[basic_type_prefix],
                    primarySize |-> data.primarySize,
                    precision |-> "Undefined"])
        ELSE TType([basic |-> basic_type_prefix \o data.basic,
                    primarySize |-> 1,
                    precision |-> "Undefined"])
    ELSE data

\* TType.specific_type raises KeyError: a generic type without 'basic'
SpecificTypeRaises(data) ==
    "genType" \in DOMAIN data /\ "basic" \notin DOMAIN data

\* TType.specific_type
specific_type(data, vec_size) ==
    IF "genType" \in DOMAIN data
    THEN TType([basic |-> data.basic, precision |-> data.precision,
                qualifier |-> data.qualifier, primarySize |-> vec_size,
                secondarySize |-> 1])
    ELSE data


(***************************************************************************)
(* The expansion of generic declarations: gen_function_variants.           *)
(***************************************************************************)
get_parameters(function_props) ==
    IF "parameters" \in DOMAIN function_props THEN function_props.parameters
    ELSE <<>>

\* the loop over the parameters that collects gen_type; raise: the loop raised
RECURSIVE ScanGenType(_, _, _)
ScanGenType(parameters, i, gen_type) ==
    IF i > Len(parameters) THEN [raise |-> FALSE, gen_type |-> gen_type]
    ELSE IF "genType" \in DOMAIN parameters[i] THEN
        IF parameters[i].genType \notin {"sampler_or_image", "vec", "yes"}
        THEN [raise |-> TRUE, gen_type |-> gen_type]
        ELSE IF Cardinality(gen_type \cup {parameters[i].genType}) > 1
        THEN [raise |-> TRUE, gen_type |-> gen_type \cup {parameters[i].genType}]
        ELSE ScanGenType(parameters, i + 1, gen_type \cup {parameters[i].genType})
    ELSE ScanGenType(parameters, i + 1, gen_type)

\* the families of a sampler-or-image generic, in order
SamplerFamilies == <<"", "I", "U">>

\* a slip: range(1, 5) also for 'vec'
Sizes_from_one(gen_type) == <<1, 2, 3, 4>>

\* range(1, 5), or range(2, 5) for 'vec'
Sizes(gen_type) == IF "vec" \in gen_type THEN <<2, 3, 4>> ELSE <<1, 2, 3, 4>>

\* a slip: the number of distinct values of genType is not checked
gen_function_variants_raises_never(function_props) == FALSE

\* gen_function_variants raises 'Unexpected multiple values of genType' (or
\* 'Unexpected value of genType') in its loop over the parameters
gen_function_variants_raises(function_props) ==
    ScanGenType(get_parameters(function_props), 1, {}).raise

\* gen_function_variants raises the KeyError of specific_type on a return
\* type that is generic and has no 'basic'
return_type_raises(function_props) ==
    LET scan == ScanGenType(get_parameters(function_props), 1, {}) IN
    /\ ~scan.raise
    /\ scan.gen_type # {}
    /\ "sampler_or_image" \notin scan.gen_type
    /\ SpecificTypeRaises(function_props.returnType)

\* a slip: the return type is scanned for genType with the parameters
gen_function_variants_by_return_type(function_props) ==
    LET parameters == get_parameters(function_props)
        gen_type == ScanGenType(<<function_props.returnType>> \o parameters,
                                1, {}).gen_type
    IN
    IF gen_type = {} THEN <<function_props>>
    ELSE IF "sampler_or_image" \in gen_type THEN
        [k \in 1..Len(SamplerFamilies) |->
            [function_props EXCEPT
                !.parameters = [i \in 1..Len(parameters) |->
                    specific_sampler_or_image_type(parameters[i], SamplerFamilies[k])],
                !.returnType =
                    specific_sampler_or_image_type(function_props.returnType,
                                                   SamplerFamilies[k])]]
    ELSE
        [k \in 1..Len(Sizes(gen_type)) |->
            [function_props EXCEPT
                !.parameters = [i \in 1..Len(parameters) |->
                    specific_type(parameters[i], Sizes(gen_type)[k])],
                !.returnType =
                    specific_type(function_props.returnType, Sizes(gen_type)[k])]]

gen_function_variants(function_props) ==
    LET parameters == get_parameters(function_props)
        gen_type == ScanGenType(parameters, 1, {}).gen_type
    IN
    IF gen_type = {} THEN <<function_props>>
    ELSE IF "sampler_or_image" \in gen_type THEN
        [k \in 1..Len(SamplerFamilies) |->
            [function_props EXCEPT
                !.parameters = [i \in 1..Len(parameters) |->
                    specific_sampler_or_image_type(parameters[i], SamplerFamilies[k])],
                !.returnType =
                    specific_sampler_or_image_type(function_props.returnType,
                                                   SamplerFamilies[k])]]
    ELSE
        [k \in 1..Len(Sizes(gen_type)) |->
            [function_props EXCEPT
                !.parameters = [i \in 1..Len(parameters) |->
                    specific_type(parameters[i], Sizes(gen_type)[k])],
                !.returnType =
                    specific_type(function_props.returnType, Sizes(gen_type)[k])]]

(***************************************************************************)
(* Names: get_suffix .. get_variable_name_to_store_parameters.             *)
(***************************************************************************)
get_suffix(props) == IF "suffix" \in DOMAIN props THEN props.suffix ELSE ""

get_extension(props) ==
    IF "extension" \in DOMAIN props THEN props.extension ELSE "UNDEFINED"

\* get_op raises 'function op not defined'
get_op_raises(function_props) == "op" \notin DOMAIN function_props

\* name[0].upper() + name[1:] of the names of the model
Capitalized == ("f" :> "F") @@ ("g" :> "G") @@ ("f_f" :> "F_f")

get_op(name, function_props) ==
    IF function_props.op = "auto" THEN Capitalized[name] ELSE function_props.op

RECURSIVE HasOutParam(_, _)
HasOutParam(parameters, i) ==
    IF i > Len(parameters) THEN FALSE
    ELSE IF "qualifier" \in DOMAIN parameters[i]
            /\ parameters[i].qualifier \in {"Out", "InOut"}
    THEN TRUE
    ELSE HasOutParam(parameters, i + 1)

get_known_to_not_have_side_effects(function_props) ==
    IF "op" \in DOMAIN function_props /\ function_props.op # "CallBuiltInFunction"
    THEN IF "hasSideEffects" \in DOMAIN function_props THEN "false"
         ELSE IF HasOutParam(get_parameters(function_props), 1) THEN "false"
         ELSE "true"
    ELSE "false"

\* the concatenation of get_mangled_name(separator) over the parameters
RECURSIVE MangledParams(_, _, _)
MangledParams(parameters, i, separator) ==
    IF i > Len(parameters) THEN ""
    ELSE get_mangled_name(parameters[i], separator)
         \o MangledParams(parameters, i + 1, separator)

get_function_mangled_name(function_name, parameters) ==
    function_name \o "(" \o MangledParams(parameters, 1, ";")

\* the loop of get_variable_name_to_store_parameters: 'o_' or 'io_' before
\* the mangled name of an out or inout parameter
RECURSIVE StoreParams(_, _)
StoreParams(parameters, i) ==
    IF i > Len(parameters) THEN ""
    ELSE (IF "qualifier" \in DOMAIN parameters[i]
          THEN (IF parameters[i].qualifier = "Out" THEN "o_" ELSE "")
               \o (IF parameters[i].qualifier = "InOut" THEN "io_" ELSE "")
          ELSE "")
         \o get_mangled_name(parameters[i], "_")
         \o StoreParams(parameters, i + 1)

\* a slip: the key of a variant marks its out and inout parameters
get_unique_identifier_name_with_markers(function_name, parameters) ==
    function_name \o "_" \o StoreParams(parameters, 1)

get_unique_identifier_name(function_name, parameters) ==
    function_name \o "_" \o MangledParams(parameters, 1, "_")

get_variable_name_to_store_parameters(parameters) ==
    IF Len(parameters) = 0 THEN "empty"
    ELSE "p_" \o StoreParams(parameters, 1)

\* some parameter's get_mangled_name raises
ParamsRaise(parameters) ==
    \E i \in 1..Len(parameters) : MangleRaises(parameters[i])

(***************************************************************************)
(* The state of a run.                                                     *)
(***************************************************************************)
VARIABLES
    \* where the run is: "parse", "process", "write", "done" or "error"
    pc,
    \* the exception that ended the run ("" while none was raised)
    err,
    \* the input lines read so far (comments and blank lines removed)
    lines,
    \* get_parsed_functions
    parsed_functions, group_stack, default_metadata,
    \* args.dump_intermediate_json, and whether builtin_functions.json is written
    dump_intermediate_json, json_written,
    \* the calls of process_function_group still to make, in order
    pending_groups,
    \* process_single_function_group: its arguments, the index of the
    \* declaration in group['functions'], its template_args, its variants and
    \* the index of the next variant (0: the declaration is not yet expanded)
    condition, group, function_index, template_args, function_variants,
    variant_index,
    \* the module's accumulators
    id_counter, defined_function_variants, builtin_id_declarations,
    name_declarations, parameter_declarations, function_declarations,
    insert_functions_by_condition, unmangled_builtin_declarations,
    unmangled_function_if_statements,
    \* the assembled output and the documents written
    output_strings, written,
    \* date.today().year of the run, the orders in which the run iterated
    \* the plain dicts of subgroups, and what an earlier run on the same
    \* input read and put out (None: this is the first run)
    today, iterated, previous

parse_vars == <<lines, parsed_functions, group_stack, default_metadata>>

group_vars == <<pending_groups, condition, group, function_index,
                template_args, function_variants, variant_index>>

table_vars == <<id_counter, defined_function_variants, builtin_id_declarations,
                name_declarations, parameter_declarations,
                function_declarations, insert_functions_by_condition,
                unmangled_builtin_declarations, unmangled_function_if_statements>>

out_vars == <<dump_intermediate_json, json_written, output_strings, written>>

run_vars == <<today, iterated, previous>>

vars == <<pc, err, parse_vars, group_vars, table_vars, out_vars, run_vars>>

levels == <<"ESSL3_1_BUILTINS", "ESSL3_BUILTINS", "ESSL1_BUILTINS", "COMMON_BUILTINS">>

LevelSet == {levels[i] : i \in 1..Len(levels)}

\* no group, no declaration
None == <<>>

\* raise Exception(message): the run ends, nothing else changes
Raise(message) == pc' = "error" /\ err' = message

(***************************************************************************)
(* The input lines.  A line is a record: GROUP BEGIN with the name and the *)
(* JSON metadata, GROUP END with the name, DEFAULT METADATA with the JSON  *)
(* dict, a function declaration with its tokens, or any other text.        *)
(***************************************************************************)
GroupBeginLine(name, metadata) ==
    [kind |-> "GROUP BEGIN", name |-> name, metadata |-> metadata]

GroupEndLine(name) == [kind |-> "GROUP END", name |-> name]

MetadataLine(metadata) == [kind |-> "DEFAULT METADATA", metadata |-> metadata]

FunctionLineOf(return_type, name, parameters) ==
    [kind |-> "function", return_type |-> return_type, name |-> name,
     parameters |-> parameters]

Tok(t) == [q |-> "", t |-> t]

\* the lines of a kind read so far
Count(kind) == Cardinality({i \in 1..Len(lines) : lines[i].kind = kind})

(***************************************************************************)
(* get_parsed_functions: one action per branch of the loop over the lines. *)
(***************************************************************************)
\* line.startswith('GROUP BEGIN ')
GroupBegin(line) ==
    /\ pc = "parse"
    /\ line.kind = "GROUP BEGIN"
    /\ Len(lines) < MaxLines
    /\ Count("GROUP BEGIN") < MaxGroups
    /\ lines' = Append(lines, line)
    /\ group_stack' = Append(group_stack,
            line.metadata @@ [functions |-> <<>>, name |-> line.name,
                              subgroups |-> <<>>])
    /\ UNCHANGED run_vars
    /\ UNCHANGED <<pc, err, parsed_functions, default_metadata, group_vars,
                   table_vars, out_vars>>

\* a slip: the name of the GROUP END line is not compared
unexpected_group_name_never(current_group, group_end_name) == FALSE

\* current_group['name'] != group_end_name
unexpected_group_name(current_group, group_end_name) ==
    current_group.name # group_end_name

\* a slip: default_metadata is reset when any group ends
metadata_after_group_end_reset(metadata, is_top_level_group) == <<>>

\* default_metadata after a GROUP END: reset when a top-level group ends
metadata_after_group_end(metadata, is_top_level_group) ==
    IF is_top_level_group THEN <<>> ELSE metadata

\* line.startswith('GROUP END ')
GroupEnd(line) ==
    /\ pc = "parse"
    /\ line.kind = "GROUP END"
    /\ Len(lines) < MaxLines
    /\ lines' = Append(lines, line)
    /\ IF group_stack = <<>>
       THEN /\ Raise("IndexError")
            /\ UNCHANGED <<parsed_functions, group_stack, default_metadata>>
       ELSE LET current_group == group_stack[Len(group_stack)]
                popped == SubSeq(group_stack, 1, Len(group_stack) - 1)
            IN
            IF unexpected_group_name(current_group, line.name)
            THEN /\ Raise("GROUP END: Unexpected function group name")
                 /\ UNCHANGED <<parsed_functions, group_stack, default_metadata>>
            ELSE IF Len(popped) = 0
            THEN /\ group_stack' = popped
                 /\ parsed_functions' =
                        OD_Set(parsed_functions, current_group.name, current_group)
                 /\ default_metadata' =
                        metadata_after_group_end(default_metadata, TRUE)
                 /\ UNCHANGED <<pc, err>>
            ELSE /\ group_stack' =
                        [popped EXCEPT ![Len(popped)].subgroups =
                            (current_group.name :> current_group) @@ @]
                 /\ default_metadata' =
                        metadata_after_group_end(default_metadata, FALSE)
                 /\ UNCHANGED <<pc, err, parsed_functions>>
    /\ UNCHANGED run_vars
    /\ UNCHANGED <<group_vars, table_vars, out_vars>>

\* line.startswith('DEFAULT METADATA')
DefaultMetadata(line) ==
    /\ pc = "parse"
    /\ line.kind = "DEFAULT METADATA"
    /\ Len(lines) < MaxLines
    /\ lines' = Append(lines, line)
    /\ default_metadata' = line.metadata
    /\ UNCHANGED run_vars
    /\ UNCHANGED <<pc, err, parsed_functions, group_stack, group_vars,
                   table_vars, out_vars>>

\* a slip: the declaration is put in front of the functions of the group
append_function_in_front(functions, function_props) ==
    <<function_props>> \o functions

\* group_stack[-1]['functions'].append(function_props)
append_function(functions, function_props) == Append(functions, function_props)

\* fun_match: the declaration joins the functions of the innermost open group
FunctionLine(line) ==
    /\ pc = "parse"
    /\ line.kind = "function"
    /\ Len(lines) < MaxLines
    /\ Count("function") < MaxFunctions
    /\ lines' = Append(lines, line)
    /\ IF \/ Unrecognized(line.return_type.t)
          \/ \E i \in 1..Len(line.parameters) : Unrecognized(line.parameters[i].t)
       THEN Raise("Unrecognized type") /\ UNCHANGED group_stack
       ELSE IF group_stack = <<>>
       THEN Raise("IndexError") /\ UNCHANGED group_stack
       ELSE LET function_props ==
                    default_metadata @@
                    [name |-> line.name,
                     returnType |-> TType(parse_type(line.return_type)),
                     parameters |-> [i \in 1..Len(line.parameters) |->
                                        TType(parse_type(line.parameters[i]))],
                     \* not keys of the code's dict: the number of the
                     \* line the declaration stands on, and the names of
                     \* the groups open around it, outermost first
                     line |-> Len(lines) + 1,
                     path |-> [i \in 1..Len(group_stack) |->
                                    group_stack[i].name]]
            IN /\ group_stack' =
                    [group_stack EXCEPT ![Len(group_stack)].functions =
                        append_function(@, function_props)]
               /\ UNCHANGED <<pc, err>>
    /\ UNCHANGED run_vars
    /\ UNCHANGED <<parsed_functions, default_metadata, group_vars, table_vars,
                   out_vars>>

\* any other line: raise 'Unexpected function input line'
UnexpectedLine(line) ==
    /\ pc = "parse"
    /\ line.kind = "other"
    /\ Len(lines) < MaxLines
    /\ lines' = Append(lines, line)
    /\ Raise("Unexpected function input line")
    /\ UNCHANGED run_vars
    /\ UNCHANGED <<parsed_functions, group_stack, default_metadata, group_vars,
                   table_vars, out_vars>>

\* the groups of an OrderedDict, in its order
Values(d) == [i \in 1..Len(d.keys) |-> d.val[d.keys[i]]]

\* the last line is read: get_parsed_functions returns, the parsed tree is
\* dumped when asked for, and the loop over parsed_functions starts
EndOfInput ==
    /\ pc = "parse"
    /\ pc' = "process"
    /\ json_written' = dump_intermediate_json
    /\ pending_groups' = Values(parsed_functions)
    /\ UNCHANGED run_vars
    /\ UNCHANGED <<err, parse_vars, condition, group, function_index,
                   template_args, function_variants, variant_index, table_vars,
                   dump_intermediate_json, output_strings, written>>

(***************************************************************************)
(* class GroupedList: objs[level] is an OrderedDict from the condition to  *)
(* an OrderedDict from the name to the object.                             *)
(***************************************************************************)
GroupedList == [l \in LevelSet |-> OD_Empty]

has_key(objs, level, cond, name) ==
    /\ OD_Has(objs[level], cond)
    /\ OD_Has(objs[level].val[cond], name)

\* GroupedList.get: the object, or None
get(objs, level, cond, name) ==
    IF has_key(objs, level, cond, name) THEN objs[level].val[cond].val[name]
    ELSE None

\* a slip: the object is filed under NO_CONDITION whatever the condition
add_obj_unconditioned(objs, level, cond, name, obj) ==
    LET of_level == IF OD_Has(objs[level], "NO_CONDITION") THEN objs[level]
                    ELSE OD_Set(objs[level], "NO_CONDITION", OD_Empty)
    IN [objs EXCEPT ![level] =
            OD_Set(of_level, "NO_CONDITION",
                   OD_Set(of_level.val["NO_CONDITION"], name, obj))]

add_obj(objs, level, cond, name, obj) ==
    LET of_level == IF OD_Has(objs[level], cond) THEN objs[level]
                    ELSE OD_Set(objs[level], cond, OD_Empty)
    IN [objs EXCEPT ![level] =
            OD_Set(of_level, cond, OD_Set(of_level.val[cond], name, obj))]

(***************************************************************************)
(* process_function_group and process_single_function_group.               *)
(***************************************************************************)
\* the orders in which a plain dict with these keys may be iterated
Orders(keys) ==
    {order \in [1..Cardinality(keys) -> keys] :
        \A i, j \in DOMAIN order : i # j => order[i] # order[j]}

\* a slip: a group with no condition of its own keeps the condition of the
\* group processed before it, its parent when it is the first subgroup
EnterGroup_inheriting ==
    /\ pc = "process"
    /\ group = None
    /\ pending_groups # <<>>
    /\ LET entered == Head(pending_groups)
           cond == IF "condition" \in DOMAIN entered THEN entered.condition
                   ELSE condition
       IN /\ group' = entered
          /\ condition' = cond
          /\ insert_functions_by_condition' =
                IF OD_Has(insert_functions_by_condition, cond)
                THEN insert_functions_by_condition
                ELSE OD_Set(insert_functions_by_condition, cond, <<>>)
    /\ pending_groups' = Tail(pending_groups)
    /\ function_index' = 1
    /\ UNCHANGED run_vars
    /\ UNCHANGED <<pc, err, parse_vars, template_args, function_variants,
                   variant_index, id_counter, defined_function_variants,
                   builtin_id_declarations, name_declarations,
                   parameter_declarations, function_declarations,
                   unmangled_builtin_declarations,
                   unmangled_function_if_statements, out_vars>>

\* process_function_group is called: the condition of the group, its list
\* of insertion instructions
EnterGroup ==
    /\ pc = "process"
    /\ group = None
    /\ pending_groups # <<>>
    /\ LET entered == Head(pending_groups)
           cond == IF "condition" \in DOMAIN entered THEN entered.condition
                   ELSE "NO_CONDITION"
       IN /\ group' = entered
          /\ condition' = cond
          /\ insert_functions_by_condition' =
                IF OD_Has(insert_functions_by_condition, cond)
                THEN insert_functions_by_condition
                ELSE OD_Set(insert_functions_by_condition, cond, <<>>)
    /\ pending_groups' = Tail(pending_groups)
    /\ function_index' = 1
    /\ UNCHANGED run_vars
    /\ UNCHANGED <<pc, err, parse_vars, template_args, function_variants,
                   variant_index, id_counter, defined_function_variants,
                   builtin_id_declarations, name_declarations,
                   parameter_declarations, function_declarations,
                   unmangled_builtin_declarations,
                   unmangled_function_if_statements, out_vars>>

\* the name-string constant of a declaration: the identifier and its text
NameDeclaration(function_props) ==
    <<function_props.name \o get_suffix(function_props), function_props.name>>

\* the record of the name at the level under NO_CONDITION has no extension:
\* "We already have this unmangled name without a condition nor extension"
Shadowed(objs, level, function_name) ==
    LET unmangled_builtin_no_condition ==
            get(objs, level, "NO_CONDITION", function_name)
    IN /\ unmangled_builtin_no_condition # None
       /\ unmangled_builtin_no_condition.extension = "UNDEFINED"

\* a slip: a name that has a record at the level, under any condition, files
\* no other
FilesUnmangled_first_writer(objs, level, cond, function_name, extension) ==
    \A i \in DOMAIN objs[level].keys :
        ~has_key(objs, level, objs[level].keys[i], function_name)

\* a slip: the record under NO_CONDITION is not looked at
FilesUnmangled_unshadowed(objs, level, cond, function_name, extension) ==
    ~has_key(objs, level, cond, function_name) \/ extension = "UNDEFINED"

\* the declaration files its unmangled lookup record and its extension tag
FilesUnmangled(objs, level, cond, function_name, extension) ==
    IF Shadowed(objs, level, function_name) THEN FALSE
    ELSE ~has_key(objs, level, cond, function_name) \/ extension = "UNDEFINED"

\* the body of the loop over group['functions'], up to the loop over the
\* variants of the declaration
ProcessFunction ==
    /\ pc = "process"
    /\ group # None
    /\ variant_index = 0
    /\ function_index <= Len(group.functions)
    /\ LET function_props == group.functions[function_index] IN
       IF "level" \notin DOMAIN function_props
       THEN /\ Raise("KeyError: level")
            /\ UNCHANGED <<template_args, function_variants, variant_index,
                           name_declarations, unmangled_builtin_declarations,
                           unmangled_function_if_statements>>
       ELSE IF get_op_raises(function_props)
       THEN /\ Raise("function op not defined")
            /\ UNCHANGED <<template_args, function_variants, variant_index,
                           name_declarations, unmangled_builtin_declarations,
                           unmangled_function_if_statements>>
       ELSE IF gen_function_variants_raises(function_props)
       THEN /\ Raise("Unexpected multiple values of genType")
            /\ UNCHANGED <<template_args, function_variants, variant_index,
                           name_declarations, unmangled_builtin_declarations,
                           unmangled_function_if_statements>>
       ELSE IF return_type_raises(function_props)
       THEN /\ Raise("KeyError: basic")
            /\ UNCHANGED <<template_args, function_variants, variant_index,
                           name_declarations, unmangled_builtin_declarations,
                           unmangled_function_if_statements>>
       ELSE IF function_props.level \notin LevelSet
       THEN \* raised by unmangled_function_if_statements.get, after the
            \* expansion and the name declaration
            /\ Raise("Unexpected level")
            /\ function_variants' = gen_function_variants(function_props)
            /\ name_declarations' =
                    name_declarations \cup {NameDeclaration(function_props)}
            /\ UNCHANGED <<template_args, variant_index,
                           unmangled_builtin_declarations,
                           unmangled_function_if_statements>>
       ELSE
       LET function_name == function_props.name
           level == function_props.level
           extension == get_extension(function_props)
           name_with_suffix == function_name \o get_suffix(function_props)
           files == FilesUnmangled(unmangled_function_if_statements, level,
                                   condition, function_name, extension)
       IN
       /\ template_args' =
            [name |-> function_name,
             name_with_suffix |-> name_with_suffix,
             level |-> level,
             extension |-> extension,
             op |-> get_op(function_name, function_props),
             known_to_not_have_side_effects |->
                get_known_to_not_have_side_effects(function_props)]
       /\ function_variants' = gen_function_variants(function_props)
       /\ variant_index' = 1
       /\ name_declarations' =
            name_declarations \cup {NameDeclaration(function_props)}
       /\ unmangled_function_if_statements' =
            IF files
            THEN add_obj(unmangled_function_if_statements, level, condition,
                         function_name,
                         [code |-> <<name_with_suffix, extension>>,
                          extension |-> extension])
            ELSE unmangled_function_if_statements
       /\ unmangled_builtin_declarations' =
            IF files THEN unmangled_builtin_declarations \cup {extension}
            ELSE unmangled_builtin_declarations
       /\ UNCHANGED <<pc, err>>
    /\ UNCHANGED run_vars
    /\ UNCHANGED <<parse_vars, pending_groups, condition, group, function_index,
                   id_counter, defined_function_variants,
                   builtin_id_declarations, parameter_declarations,
                   function_declarations, insert_functions_by_condition,
                   out_vars>>

\* a slip: no variant is ever found among the defined ones
is_defined_variant_never(unique_name, defined) == FALSE

\* template_args['unique_name'] in defined_function_variants
is_defined_variant(unique_name, defined) == unique_name \in defined

\* the body of the loop over the variants of the declaration: one variant
ProcessVariant ==
    /\ pc = "process"
    /\ group # None
    /\ variant_index >= 1
    /\ LET function_props == function_variants[variant_index]
           parameters == get_parameters(function_props)
           last == variant_index = Len(function_variants)
       IN
       IF ParamsRaise(parameters)
       THEN /\ Raise("KeyError: basic")
            /\ UNCHANGED <<function_index, template_args, variant_index,
                           table_vars>>
       ELSE
       LET unique_name ==
               get_unique_identifier_name(template_args.name_with_suffix,
                                          parameters)
           with_id == [id |-> id_counter, unique_name |-> unique_name]
                      @@ template_args
       IN
       IF is_defined_variant(unique_name, defined_function_variants)
       THEN \* continue
            /\ template_args' = with_id
            /\ variant_index' = IF last THEN 0 ELSE variant_index + 1
            /\ function_index' = IF last THEN function_index + 1
                                 ELSE function_index
            /\ UNCHANGED <<pc, err, table_vars>>
       ELSE IF "basic" \notin DOMAIN function_props.returnType
       THEN /\ Raise("KeyError: basic")
            /\ defined_function_variants' =
                    defined_function_variants \cup {unique_name}
            /\ template_args' = [param_count |-> Len(parameters)] @@ with_id
            /\ UNCHANGED <<function_index, variant_index, id_counter,
                           builtin_id_declarations, name_declarations,
                           parameter_declarations, function_declarations,
                           insert_functions_by_condition,
                           unmangled_builtin_declarations,
                           unmangled_function_if_statements>>
       ELSE
       LET mangled_name ==
               get_function_mangled_name(template_args.name, parameters)
           parameters_list ==
               [i \in 1..Len(parameters) |-> get_statictype_string(parameters[i])]
           filled ==
               [param_count |-> Len(parameters),
                return_type |-> get_statictype_string(function_props.returnType),
                mangled_name |-> mangled_name,
                parameters_var_name |->
                    get_variable_name_to_store_parameters(parameters)]
               @@ (IF Len(parameters) > 0
                   THEN [parameters_list |-> parameters_list] ELSE <<>>)
               @@ with_id
       IN
       /\ defined_function_variants' =
            defined_function_variants \cup {unique_name}
       /\ template_args' = filled
       /\ builtin_id_declarations' =
            Append(builtin_id_declarations,
                   [unique_name |-> unique_name, id |-> id_counter])
       /\ name_declarations' = name_declarations \cup {<<unique_name, mangled_name>>}
       /\ parameter_declarations' =
            parameter_declarations \cup
            {[parameters_var_name |-> filled.parameters_var_name,
              param_count |-> Len(parameters),
              parameters_list |-> parameters_list]}
       /\ function_declarations' =
            Append(function_declarations,
                   [unique_name |-> unique_name,
                    name_with_suffix |-> filled.name_with_suffix,
                    extension |-> filled.extension,
                    parameters_var_name |-> filled.parameters_var_name,
                    param_count |-> filled.param_count,
                    return_type |-> filled.return_type,
                    op |-> filled.op,
                    known_to_not_have_side_effects |->
                        filled.known_to_not_have_side_effects,
                    \* not part of the record: the line and the groups
                    \* of the declaration, the index of the variant
                    line |-> function_props.line,
                    path |-> function_props.path,
                    variant |-> variant_index])
       /\ insert_functions_by_condition' =
            [insert_functions_by_condition EXCEPT !.val[condition] =
                Append(@, [level |-> filled.level, unique_name |-> unique_name])]
       /\ id_counter' = id_counter + 1
       /\ variant_index' = IF last THEN 0 ELSE variant_index + 1
       /\ function_index' = IF last THEN function_index + 1 ELSE function_index
       /\ UNCHANGED <<pc, err, unmangled_builtin_declarations,
                      unmangled_function_if_statements>>
    /\ UNCHANGED run_vars
    /\ UNCHANGED <<parse_vars, pending_groups, condition, group,
                   function_variants, out_vars>>

\* process_single_function_group returns: the subgroups of the group are
\* processed next, in the order the plain dict is iterated in
LeaveGroup ==
    /\ pc = "process"
    /\ group # None
    /\ variant_index = 0
    /\ function_index > Len(group.functions)
    /\ \E order \in Orders(DOMAIN group.subgroups) :
            /\ pending_groups' =
                    [i \in DOMAIN order |-> group.subgroups[order[i]]]
                    \o pending_groups
            /\ iterated' = Append(iterated, order)
    /\ group' = None
    /\ UNCHANGED <<today, previous>>
    /\ UNCHANGED <<pc, err, parse_vars, condition, function_index,
                   template_args, function_variants, variant_index, table_vars,
                   out_vars>>

\* the insertion instructions of every condition, in the order of
\* insert_functions_by_condition, a condition's within its braces
RECURSIVE InsertFunctions(_, _)
InsertFunctions(by_condition, i) ==
    IF i > Len(by_condition.keys) THEN <<>>
    ELSE LET cond == by_condition.keys[i] IN
         (IF cond # "NO_CONDITION" THEN <<[header |-> cond]>> ELSE <<>>)
         \o by_condition.val[cond]
         \o (IF cond # "NO_CONDITION" THEN <<[footer |-> "}"]>> ELSE <<>>)
         \o InsertFunctions(by_condition, i + 1)

(***************************************************************************)
(* hash32 and the unmangled-name dispatch.  A value of hash32 is held as   *)
(* its 16-bit limbs, the low limb first: the product hash * fnvPrime has   *)
(* four limbs, and & 0xffffffff keeps the low two.                         *)
(***************************************************************************)
\* 0x10000, the weight of a limb
Limb == 65536

\* 0x811c9dc5
fnvOffsetBasis == <<40389, 33052>>

\* 16777619 = 0x01000193
fnvPrime == <<403, 256>>

\* ord(c) of the characters of the function names of the inputs
ord == ("a" :> 97) @@ ("f" :> 102) @@ ("g" :> 103) @@ ("_" :> 95)

\* the sequences of characters of the function names of the inputs
NameCharacters == UNION { [1..n -> DOMAIN ord] : n \in 1..MaxNameLen }

\* the text of a sequence of characters
RECURSIVE Joined(_, _)
Joined(characters, i) ==
    IF i > Len(characters) THEN ""
    ELSE characters[i] \o Joined(characters, i + 1)

\* for c in str: the characters of a name, in order
Characters(str) ==
    CHOOSE characters \in NameCharacters : Joined(characters, 1) = str

\* a ^ b of two numbers below 0x10000
RECURSIVE BitXor(_, _)
BitXor(a, b) ==
    IF a = 0 THEN b
    ELSE IF b = 0 THEN a
    ELSE ((a + b) % 2) + 2 * BitXor(a \div 2, b \div 2)

\* hash ^ ord(c)
hash_xor(hash, code) == [hash EXCEPT ![1] = BitXor(@, code)]

\* hash * fnvPrime: the four limbs of the product
hash_times(hash, prime) ==
    LET p0 == hash[1] * prime[1]
        p1 == hash[1] * prime[2] + hash[2] * prime[1] + p0 \div Limb
        p2 == hash[2] * prime[2] + p1 \div Limb
    IN <<p0 % Limb, p1 % Limb, p2 % Limb, p2 \div Limb>>

\* & 0xffffffff
mask32(limbs) == SubSeq(limbs, 1, 2)

\* a slip: FNV-1, the product before the exclusive or
hash_round_product_first(hash, code) ==
    hash_xor(mask32(hash_times(hash, fnvPrime)), code)

\* the body of the loop of hash32 over the characters
hash_round(hash, code) == mask32(hash_times(hash_xor(hash, code), fnvPrime))

\* the loop of hash32 from the i-th character on
RECURSIVE hash_loop(_, _, _)
hash_loop(characters, i, hash) ==
    IF i > Len(characters) THEN hash
    ELSE hash_loop(characters, i + 1, hash_round(hash, ord[characters[i]]))

\* hash32: the value it returns
hash32(str) == hash_loop(Characters(str), 1, fnvOffsetBasis)

\* the assertion hash32 records: the hash and the name of its text
sanity_check(str) == [hash |-> hash32(str), str |-> str]

\* script_generated_hash_tests.update({sanity_check: None}) for the names
\* hashed, in order: a key that is present keeps its place
RECURSIVE RecordTests(_, _, _)
RecordTests(names, i, tests) ==
    IF i > Len(names) THEN tests
    ELSE RecordTests(names, i + 1,
            IF \E k \in DOMAIN tests : tests[k] = sanity_check(names[i])
            THEN tests
            ELSE Append(tests, sanity_check(names[i])))

get_shader_version_condition_for_level ==
    [ESSL3_1_BUILTINS |-> "shaderVersion >= 310",
     ESSL3_BUILTINS |-> "shaderVersion >= 300",
     ESSL1_BUILTINS |-> "shaderVersion == 100",
     COMMON_BUILTINS |-> ""]

\* the order of sorted() on the hashes
HashLess(a, b) == a[2] < b[2] \/ (a[2] = b[2] /\ a[1] < b[1])

\* sorted(get_unmangled_builtin_switch.iteritems()): the hashes in order
RECURSIVE SortedHashes(_)
SortedHashes(hashes) ==
    IF hashes = {} THEN <<>>
    ELSE LET least == CHOOSE x \in hashes :
                        \A y \in hashes : x = y \/ HashLess(x, y)
         IN <<least>> \o SortedHashes(hashes \ {least})

\* get_unmangled_builtin_switch[name_hash]: the code of the names of the
\* hash, in the order of the names
RECURSIVE CasesOf(_, _, _)
CasesOf(functions, name_hash, i) ==
    IF i > Len(functions.keys) THEN <<>>
    ELSE (IF hash32(functions.keys[i]) = name_hash
          THEN <<functions.val[functions.keys[i]].code>> ELSE <<>>)
         \o CasesOf(functions, name_hash, i + 1)

\* the switch over nameHash of the names of a level and a condition
SwitchOf(functions) ==
    LET sorted == SortedHashes({hash32(functions.keys[i]) :
                                    i \in DOMAIN functions.keys})
    IN [switch |-> [k \in DOMAIN sorted |->
                        [name_hash |-> sorted[k],
                         cases |-> CasesOf(functions, sorted[k], 1)]]]

\* the lines of get_unmangled_builtin of the conditions of a level, from
\* the i-th on (the conditions of the inputs hold no 'shaderType' to replace)
RECURSIVE UnmangledOfConditions(_, _)
UnmangledOfConditions(of_level, i) ==
    IF i > Len(of_level.keys) THEN <<>>
    ELSE LET cond == of_level.keys[i]
             functions == of_level.val[cond]
         IN (IF Len(functions.keys) > 0
             THEN (IF cond # "NO_CONDITION" THEN <<[header |-> cond]>> ELSE <<>>)
                  \o <<SwitchOf(functions)>>
                  \o (IF cond # "NO_CONDITION" THEN <<[footer |-> "}"]>> ELSE <<>>)
             ELSE <<>>)
            \o UnmangledOfConditions(of_level, i + 1)

\* the lines of get_unmangled_builtin of the levels, from the i-th on
RECURSIVE UnmangledOfLevels(_, _)
UnmangledOfLevels(objs, i) ==
    IF i > Len(levels) THEN <<[footer |-> "return nullptr;"]>>
    ELSE LET level_condition == get_shader_version_condition_for_level[levels[i]]
         IN (IF level_condition # "" THEN <<[header |-> level_condition]>> ELSE <<>>)
            \o UnmangledOfConditions(objs[levels[i]], 1)
            \o (IF level_condition # "" THEN <<[footer |-> "}"]>> ELSE <<>>)
            \o UnmangledOfLevels(objs, i + 1)

\* the names hash32 is called with, in the order of the calls
RECURSIVE HashedOfConditions(_, _)
HashedOfConditions(of_level, i) ==
    IF i > Len(of_level.keys) THEN <<>>
    ELSE of_level.val[of_level.keys[i]].keys \o HashedOfConditions(of_level, i + 1)

RECURSIVE HashedNames(_, _)
HashedNames(objs, i) ==
    IF i > Len(levels) THEN <<>>
    ELSE HashedOfConditions(objs[levels[i]], 1) \o HashedNames(objs, i + 1)

\* a slip: the counter itself is emitted as the last identity
last_static_builtin_id_is_counter(counter) == counter

\* output_strings['last_static_builtin_id']
last_static_builtin_id(counter) == counter - 1

\* every group is processed: output_strings is assembled
Assemble ==
    /\ pc = "process"
    /\ group = None
    /\ pending_groups = <<>>
    /\ pc' = "write"
    /\ output_strings' =
        [copyright_year |-> today,
         builtin_id_declarations |-> builtin_id_declarations,
         last_static_builtin_id |-> last_static_builtin_id(id_counter),
         name_declarations |-> name_declarations,
         function_declarations |-> function_declarations,
         parameter_declarations |-> parameter_declarations,
         insert_functions |-> InsertFunctions(insert_functions_by_condition, 1),
         unmangled_builtin_declarations |-> unmangled_builtin_declarations,
         get_unmangled_builtin |->
            UnmangledOfLevels(unmangled_function_if_statements, 1),
         script_generated_hash_tests |->
            RecordTests(HashedNames(unmangled_function_if_statements, 1), 1,
                        <<>>)]
    /\ UNCHANGED run_vars
    /\ UNCHANGED <<err, parse_vars, group_vars, table_vars,
                   dump_intermediate_json, json_written, written>>

\* a slip: the document is also written when the run ended in an error
WriteTest_after_error ==
    /\ pc \in {"write", "error"}
    /\ "ImmutableString_test_autogen.cpp" \notin written
    /\ written' = written \cup {"ImmutableString_test_autogen.cpp"}
    /\ UNCHANGED run_vars
    /\ UNCHANGED <<pc, err, parse_vars, group_vars, table_vars,
                   dump_intermediate_json, json_written, output_strings>>

\* ImmutableString_test_autogen.cpp is written
WriteTest ==
    /\ pc = "write"
    /\ "ImmutableString_test_autogen.cpp" \notin written
    /\ written' = written \cup {"ImmutableString_test_autogen.cpp"}
    /\ UNCHANGED run_vars
    /\ UNCHANGED <<pc, err, parse_vars, group_vars, table_vars,
                   dump_intermediate_json, json_written, output_strings>>

\* SymbolTable_autogen.cpp is written, and the run ends
WriteTable ==
    /\ pc = "write"
    /\ "ImmutableString_test_autogen.cpp" \in written
    /\ written' = written \cup {"SymbolTable_autogen.cpp"}
    /\ pc' = "done"
    /\ UNCHANGED run_vars
    /\ UNCHANGED <<err, parse_vars, group_vars, table_vars,
                   dump_intermediate_json, json_written, output_strings>>

(***************************************************************************)
(* The run of the script on an input.                                      *)
(***************************************************************************)
Init ==
    /\ pc = "parse"
    /\ err = ""
    /\ lines = <<>>
    /\ parsed_functions = OD_Empty
    /\ group_stack = <<>>
    /\ default_metadata = <<>>
    /\ dump_intermediate_json \in BOOLEAN
    /\ json_written = FALSE
    /\ pending_groups = <<>>
    /\ condition = "NO_CONDITION"
    /\ group = None
    /\ function_index = 0
    /\ template_args = None
    /\ function_variants = <<>>
    /\ variant_index = 0
    /\ id_counter = 0
    /\ defined_function_variants = {}
    /\ builtin_id_declarations = <<>>
    /\ name_declarations = {}
    /\ parameter_declarations = {}
    /\ function_declarations = <<>>
    /\ insert_functions_by_condition = OD_Empty
    /\ unmangled_builtin_declarations = {}
    /\ unmangled_function_if_statements = GroupedList
    /\ output_strings = None
    /\ written = {}
    /\ today = 2018
    /\ iterated = <<>>
    /\ previous = None

\* the years in which the script is run
Years == {2018, 2019}

\* a slip: the identities of a later run go on from those of the earlier one
Restart_counting_on ==
    /\ pc = "done"
    /\ previous = None
    /\ previous' = [lines |-> lines, today |-> today, iterated |-> iterated,
                    output_strings |-> output_strings]
    /\ today' \in Years
    /\ iterated' = <<>>
    /\ pc' = "parse"
    /\ lines' = <<>>
    /\ parsed_functions' = OD_Empty
    /\ group_stack' = <<>>
    /\ default_metadata' = <<>>
    /\ dump_intermediate_json' \in BOOLEAN
    /\ json_written' = FALSE
    /\ pending_groups' = <<>>
    /\ condition' = "NO_CONDITION"
    /\ group' = None
    /\ function_index' = 0
    /\ template_args' = None
    /\ function_variants' = <<>>
    /\ variant_index' = 0
    /\ defined_function_variants' = {}
    /\ builtin_id_declarations' = <<>>
    /\ name_declarations' = {}
    /\ parameter_declarations' = {}
    /\ function_declarations' = <<>>
    /\ insert_functions_by_condition' = OD_Empty
    /\ unmangled_builtin_declarations' = {}
    /\ unmangled_function_if_statements' = GroupedList
    /\ output_strings' = None
    /\ written' = {}
    /\ UNCHANGED <<err, id_counter>>

\* the script is run again, on the input of the run that is done: the
\* module is initialised anew, in the year of the new run
Restart ==
    /\ pc = "done"
    /\ previous = None
    /\ previous' = [lines |-> lines, today |-> today, iterated |-> iterated,
                    output_strings |-> output_strings]
    /\ today' \in Years
    /\ iterated' = <<>>
    /\ pc' = "parse"
    /\ lines' = <<>>
    /\ parsed_functions' = OD_Empty
    /\ group_stack' = <<>>
    /\ default_metadata' = <<>>
    /\ dump_intermediate_json' \in BOOLEAN
    /\ json_written' = FALSE
    /\ pending_groups' = <<>>
    /\ condition' = "NO_CONDITION"
    /\ group' = None
    /\ function_index' = 0
    /\ template_args' = None
    /\ function_variants' = <<>>
    /\ variant_index' = 0
    /\ id_counter' = 0
    /\ defined_function_variants' = {}
    /\ builtin_id_declarations' = <<>>
    /\ name_declarations' = {}
    /\ parameter_declarations' = {}
    /\ function_declarations' = <<>>
    /\ insert_functions_by_condition' = OD_Empty
    /\ unmangled_builtin_declarations' = {}
    /\ unmangled_function_if_statements' = GroupedList
    /\ output_strings' = None
    /\ written' = {}
    /\ UNCHANGED err

Process ==
    \/ EnterGroup
    \/ ProcessFunction
    \/ ProcessVariant
    \/ LeaveGroup
    \/ Assemble
    \/ WriteTest
    \/ WriteTable

(***************************************************************************)
(* Spec: the run on any input of at most MaxLines lines.                   *)
(***************************************************************************)
\* the DEFAULT METADATA dicts of the inputs
CommonAuto == [level |-> "COMMON_BUILTINS", op |-> "auto"]

CommonExt == [level |-> "COMMON_BUILTINS", op |-> "auto", extension |-> "EXT"]

Essl3Call == [level |-> "ESSL3_BUILTINS", op |-> "CallBuiltInFunction"]

\* the lines of the inputs of Spec: nested groups, declarations with and
\* without metadata, lines that are no line of the grammar
InputLines ==
    { GroupBeginLine("A", <<>>), GroupBeginLine("B", <<>>),
      GroupEndLine("A"), GroupEndLine("B"),
      MetadataLine(CommonAuto),
      FunctionLineOf(Tok("float"), "f", <<Tok("float")>>),
      FunctionLineOf(Tok("void"), "g", <<>>),
      [kind |-> "other"] }

Next ==
    \/ \E line \in InputLines :
        \/ GroupBegin(line)
        \/ GroupEnd(line)
        \/ DefaultMetadata(line)
        \/ FunctionLine(line)
        \/ UnexpectedLine(line)
    \/ EndOfInput
    \/ Process

Spec == Init /\ [][Next]_vars

(***************************************************************************)
(* SpecParse: get_parsed_functions alone, on inputs with two DEFAULT       *)
(* METADATA dicts.                                                         *)
(***************************************************************************)
ParseLines == InputLines \cup { MetadataLine(Essl3Call) }

NextParse ==
    \/ \E line \in ParseLines :
        \/ GroupBegin(line)
        \/ GroupEnd(line)
        \/ DefaultMetadata(line)
        \/ FunctionLine(line)
        \/ UnexpectedLine(line)
    \/ EndOfInput

SpecParse == Init /\ [][NextParse]_vars

(***************************************************************************)
(* SpecTable: the run on the inputs that parse: every GROUP END closes the *)
(* innermost open group, every DEFAULT METADATA line is followed by a      *)
(* declaration, every declaration has a level and an op, and the input     *)
(* ends with every group closed.  The groups carry conditions, the         *)
(* metadata levels and extensions, and declarations repeat.                *)
(***************************************************************************)
TableLines ==
    { GroupBeginLine("A", <<>>), GroupBeginLine("B", [condition |-> "c2"]),
      GroupEndLine("A"), GroupEndLine("B"),
      MetadataLine(CommonAuto), MetadataLine(CommonExt), MetadataLine(Essl3Call),
      FunctionLineOf(Tok("float"), "f", <<Tok("float")>>),
      FunctionLineOf(Tok("genType"), "f", <<Tok("genType")>>) }

AfterMetadata ==
    lines # <<>> /\ lines[Len(lines)].kind = "DEFAULT METADATA"

WellFormed(line) ==
    CASE line.kind = "GROUP BEGIN" -> ~AfterMetadata
      [] line.kind = "GROUP END" ->
            /\ ~AfterMetadata
            /\ group_stack # <<>>
            /\ group_stack[Len(group_stack)].name = line.name
      [] line.kind = "DEFAULT METADATA" -> ~AfterMetadata /\ group_stack # <<>>
      [] line.kind = "function" ->
            /\ group_stack # <<>>
            /\ {"level", "op"} \subseteq DOMAIN default_metadata
      [] OTHER -> FALSE

NextTable ==
    \/ \E line \in TableLines :
        \/ WellFormed(line) /\ GroupBegin(line)
        \/ WellFormed(line) /\ GroupEnd(line)
        \/ WellFormed(line) /\ DefaultMetadata(line)
        \/ WellFormed(line) /\ FunctionLine(line)
    \/ group_stack = <<>> /\ ~AfterMetadata /\ EndOfInput
    \/ Process

SpecTable == Init /\ [][NextTable]_vars


(***************************************************************************)
(* SpecExpand: the run on the inputs of four lines that hold one group     *)
(* with one declaration, the declaration drawn from every return type and  *)
(* every list of at most MaxParams parameters of the tokens below; the     *)
(* metadata may lack the op, the GROUP END may name another group and the  *)
(* first line may be no line of the grammar.                               *)
(***************************************************************************)
ParamTokens ==
    { Tok("float"), Tok("int"), Tok("vec3"), Tok("mat2"), Tok("sampler2D"),
      Tok("genType"), Tok("genIType"), [q |-> "out ", t |-> "genType"],
      Tok("vec"), Tok("bvec"),
      Tok("gsampler2D"), Tok("gimage2D"), Tok("gvec4"),
      Tok("void") }

ReturnTokens ==
    { Tok("float"), Tok("void"), Tok("genType"), Tok("gvec4"), Tok("double") }

ParamLists == UNION { [1..n -> ParamTokens] : n \in 0..MaxParams }

ExpandLines ==
    { FunctionLineOf(return_type, "f", parameters) :
        return_type \in ReturnTokens, parameters \in ParamLists }

NextExpand ==
    \/ /\ Len(lines) = 0
       /\ \/ GroupBegin(GroupBeginLine("A", <<>>))
          \/ UnexpectedLine([kind |-> "other"])
    \/ /\ Len(lines) = 1
       /\ \E metadata \in {CommonAuto, [level |-> "COMMON_BUILTINS"]} :
            DefaultMetadata(MetadataLine(metadata))
    \/ /\ Len(lines) = 2
       /\ pc = "parse"
       /\ \E line \in ExpandLines : FunctionLine(line)
    \/ /\ Len(lines) = 3
       /\ \E name \in {"A", "B"} : GroupEnd(GroupEndLine(name))
    \/ /\ Len(lines) = 4
       /\ EndOfInput
    \/ Process

SpecExpand == Init /\ [][NextExpand]_vars

(***************************************************************************)
(* SpecHash: the run on the inputs of one group with two declarations      *)
(* 'void name()', the first name drawn from every text of at most          *)
(* MaxNameLen characters, at one level or at two.                          *)
(***************************************************************************)
Essl1Call == [level |-> "ESSL1_BUILTINS", op |-> "CallBuiltInFunction"]

FunctionNames == { Joined(characters, 1) : characters \in NameCharacters }

NextHash ==
    \/ /\ Len(lines) = 0
       /\ GroupBegin(GroupBeginLine("A", <<>>))
    \/ /\ Len(lines) = 2
       /\ pc = "parse"
       /\ \E name \in FunctionNames :
            FunctionLine(FunctionLineOf(Tok("void"), name, <<>>))
    \/ /\ Len(lines) = 4
       /\ pc = "parse"
       /\ \E name \in {"a", "f_"} :
            FunctionLine(FunctionLineOf(Tok("void"), name, <<>>))
    \/ /\ Len(lines) \in {1, 3}
       /\ \E metadata \in {Essl3Call, Essl1Call} :
            DefaultMetadata(MetadataLine(metadata))
    \/ /\ Len(lines) = 5
       /\ GroupEnd(GroupEndLine("A"))
    \/ /\ Len(lines) = 6
       /\ EndOfInput
    \/ Process

SpecHash == Init /\ [][NextHash]_vars

(***************************************************************************)
(* SpecTwice: two runs of the script on one input.  The input is a group   *)
(* A with a DEFAULT METADATA line and conditioned subgroups with           *)
(* declarations; the second run reads the lines the first one read.        *)
(***************************************************************************)
TwiceGroups ==
    { GroupBeginLine("B", [condition |-> "c2"]),
      GroupBeginLine("C", [condition |-> "c3"]) }

TwiceFunctions ==
    { FunctionLineOf(Tok("float"), "f", <<Tok("float")>>),
      FunctionLineOf(Tok("void"), "g", <<>>) }

\* the next line of the input the earlier run read
NextLineAgain == previous.lines[Len(lines) + 1]

NextTwice ==
    \/ /\ previous = None
       /\ Len(lines) = 0
       /\ GroupBegin(GroupBeginLine("A", <<>>))
    \/ /\ previous = None
       /\ Len(lines) = 1
       /\ DefaultMetadata(MetadataLine(CommonAuto))
    \/ /\ previous = None
       /\ Len(lines) >= 2
       /\ Len(group_stack) = 1
       /\ \E line \in TwiceGroups :
            /\ \A i \in DOMAIN lines : lines[i] # line
            /\ GroupBegin(line)
    \/ /\ previous = None
       /\ Len(group_stack) = 2
       /\ \E line \in TwiceFunctions : FunctionLine(line)
    \/ /\ previous = None
       /\ Len(lines) >= 2
       /\ group_stack # <<>>
       /\ GroupEnd(GroupEndLine(group_stack[Len(group_stack)].name))
    \/ /\ previous = None
       /\ Len(lines) >= 2
       /\ group_stack = <<>>
       /\ EndOfInput
    \/ /\ previous # None
       /\ Len(lines) < Len(previous.lines)
       /\ GroupBegin(NextLineAgain)
    \/ /\ previous # None
       /\ Len(lines) < Len(previous.lines)
       /\ DefaultMetadata(NextLineAgain)
    \/ /\ previous # None
       /\ Len(lines) < Len(previous.lines)
       /\ FunctionLine(NextLineAgain)
    \/ /\ previous # None
       /\ Len(lines) < Len(previous.lines)
       /\ GroupEnd(NextLineAgain)
    \/ /\ previous # None
       /\ Len(lines) = Len(previous.lines)
       /\ EndOfInput
    \/ Process
    \/ Restart

SpecTwice == Init /\ [][NextTwice]_vars

(***************************************************************************)
(* SpecQualifier: the run on the inputs of one group with two declarations *)
(* 'void f(...)' of at most MaxParams parameters each, of the types float  *)
(* and vec3 and the qualifiers in, out and inout.                          *)
(***************************************************************************)
QualifiedTokens ==
    { Tok("float"), [q |-> "out ", t |-> "float"],
      [q |-> "inout ", t |-> "float"], Tok("vec3") }

QualifierLines ==
    { FunctionLineOf(Tok("void"), "f", parameters) :
        parameters \in UNION { [1..n -> QualifiedTokens] : n \in 0..MaxParams } }

NextQualifier ==
    \/ /\ Len(lines) = 0
       /\ GroupBegin(GroupBeginLine("A", <<>>))
    \/ /\ Len(lines) = 1
       /\ DefaultMetadata(MetadataLine(CommonAuto))
    \/ /\ Len(lines) \in {2, 3}
       /\ pc = "parse"
       /\ \E line \in QualifierLines : FunctionLine(line)
    \/ /\ Len(lines) = 4
       /\ GroupEnd(GroupEndLine("A"))
    \/ /\ Len(lines) = 5
       /\ EndOfInput
    \/ Process

SpecQualifier == Init /\ [][NextQualifier]_vars

(***************************************************************************)
(* SpecCondition: the run on the inputs of a group A with a declaration    *)
(* and a nested group B with a declaration, each group with or without a   *)
(* condition of its own, the declarations with or without an extension.    *)
(***************************************************************************)
ConditionFunctions ==
    { FunctionLineOf(Tok("float"), "f", <<Tok("float")>>),
      FunctionLineOf(Tok("void"), "g", <<>>) }

NextCondition ==
    \/ /\ Len(lines) = 0
       /\ \E metadata \in {<<>>, [condition |-> "c1"]} :
            GroupBegin(GroupBeginLine("A", metadata))
    \/ /\ Len(lines) = 1
       /\ \E metadata \in {CommonAuto, CommonExt} :
            DefaultMetadata(MetadataLine(metadata))
    \/ /\ Len(lines) \in {2, 4}
       /\ pc = "parse"
       /\ \E line \in ConditionFunctions : FunctionLine(line)
    \/ /\ Len(lines) = 3
       /\ \E metadata \in {<<>>, [condition |-> "c2"]} :
            GroupBegin(GroupBeginLine("B", metadata))
    \/ /\ Len(lines) = 5
       /\ GroupEnd(GroupEndLine("B"))
    \/ /\ Len(lines) = 6
       /\ GroupEnd(GroupEndLine("A"))
    \/ /\ Len(lines) = 7
       /\ EndOfInput
    \/ Process

SpecCondition == Init /\ [][NextCondition]_vars

(***************************************************************************)
(* Properties of the generated table.                                      *)
(***************************************************************************)
\* the identities of the per-variant identity constants
AssignedIds ==
    {builtin_id_declarations[i].id : i \in DOMAIN builtin_id_declarations}

(* C1: the identities written into the per-variant identity constants are  *)
(* exactly 0 .. last identity, each assigned once and in order, and the    *)
(* last identity emitted with the table is id_counter - 1 (-1 when no      *)
(* variant is materialized).                                               *)
C1_IdentityDensity ==
    /\ \A i \in DOMAIN builtin_id_declarations :
            builtin_id_declarations[i].id = i - 1
    /\ AssignedIds = 0..(id_counter - 1)
    /\ Cardinality(AssignedIds) = Len(builtin_id_declarations)
    /\ pc \in {"write", "done"} =>
        /\ output_strings.last_static_builtin_id = id_counter - 1
        /\ output_strings.builtin_id_declarations = builtin_id_declarations
        /\ AssignedIds = 0..output_strings.last_static_builtin_id
        /\ (AssignedIds = {}) = (output_strings.last_static_builtin_id = -1)

\* a finished run of two declarations: four variants are materialized and
\* one more was skipped
C1_Witness ==
    /\ pc = "done"
    /\ Count("function") = 2
    /\ Len(builtin_id_declarations) = 4
    /\ output_strings.last_static_builtin_id = 3

\* the unique-variant key of the variant the loop stands on
CurrentKey ==
    get_unique_identifier_name(
        template_args.name_with_suffix,
        get_parameters(function_variants[variant_index]))

\* the loop stands on a variant whose key is already defined
OnDuplicateVariant ==
    /\ pc = "process"
    /\ variant_index >= 1
    /\ ~ParamsRaise(get_parameters(function_variants[variant_index]))
    /\ CurrentKey \in defined_function_variants

(* C2: a variant whose unique-variant key is already defined is skipped    *)
(* entirely: the step leaves id_counter, the identity constants, the       *)
(* mangled-name constants, the parameter-list constants, the signature     *)
(* records and the insertion instructions as they were, and the run goes   *)
(* on.                                                                     *)
C2_DuplicateVariantSkipped ==
    [][OnDuplicateVariant =>
        /\ UNCHANGED <<id_counter, builtin_id_declarations, name_declarations,
                       parameter_declarations, function_declarations,
                       insert_functions_by_condition,
                       defined_function_variants>>
        /\ pc' = "process"]_vars

\* a variant was just skipped: it was numbered with the counter, which did
\* not advance
C2_Witness ==
    /\ pc = "process"
    /\ "id" \in DOMAIN template_args
    /\ template_args.id = id_counter
    /\ id_counter > 0
    /\ template_args.unique_name \in defined_function_variants

\* the loop over group['functions'] stands on a declaration that is expanded
\* without an error
OnDeclaration ==
    /\ pc = "process"
    /\ group # None
    /\ variant_index = 0
    /\ function_index <= Len(group.functions)
    /\ {"level", "op"} \subseteq DOMAIN group.functions[function_index]
    /\ group.functions[function_index].level \in LevelSet
    /\ ~gen_function_variants_raises(group.functions[function_index])
    /\ ~return_type_raises(group.functions[function_index])

\* the unique-variant keys of the variants of a declaration
DeclarationKeys(function_props) ==
    LET function_variants_of == gen_function_variants(function_props) IN
    { get_unique_identifier_name(
            function_props.name \o get_suffix(function_props),
            get_parameters(function_variants_of[k])) :
        k \in DOMAIN function_variants_of }

\* the loop stands on a declaration all of whose variants are duplicates
OnDuplicateDeclaration ==
    /\ OnDeclaration
    /\ \A k \in DOMAIN gen_function_variants(group.functions[function_index]) :
            ~ParamsRaise(get_parameters(
                gen_function_variants(group.functions[function_index])[k]))
    /\ DeclarationKeys(group.functions[function_index])
            \subseteq defined_function_variants

\* the conditions that have records at a level, before or after the step
ConditionsAt(level) ==
    { unmangled_function_if_statements[level].keys[i] :
        i \in DOMAIN unmangled_function_if_statements[level].keys }
    \cup { unmangled_function_if_statements'[level].keys[i] :
        i \in DOMAIN unmangled_function_if_statements'[level].keys }

\* the names of the declarations read
DeclaredNames ==
    { lines[i].name : i \in {j \in DOMAIN lines : lines[j].kind = "function"} }

\* the step leaves the unmangled lookup record of the place as it was
RecordKept(level, cond, name) ==
    get(unmangled_function_if_statements', level, cond, name)
        = get(unmangled_function_if_statements, level, cond, name)

(* C3 as stated: a declaration whose variants all have keys that earlier   *)
(* declarations defined adds or changes no name-string constant, no        *)
(* unmangled lookup record and no extension-tag constant.                  *)
C3_DuplicateContributesNothing ==
    [][OnDuplicateDeclaration =>
        UNCHANGED <<name_declarations, unmangled_function_if_statements,
                    unmangled_builtin_declarations>>]_vars

(* C3, amended: a declaration whose variants all have keys that earlier    *)
(* declarations defined materializes nothing (no identity, no constant of  *)
(* a variant, no signature record, no insertion instruction), but before   *)
(* its variants are looked at it files what belongs to its name: its       *)
(* name-string constant, and, unless the name is shadowed at its level or  *)
(* has a record at its level and condition while the declaration is        *)
(* extension-tagged, its unmangled lookup record at (level, condition,     *)
(* name) and its extension-tag constant; no other record changes.          *)
C3_DuplicateFilesOnlyItsName ==
    [][OnDuplicateDeclaration =>
        LET function_props == group.functions[function_index]
            level == function_props.level
            name == function_props.name
            extension == IF "extension" \in DOMAIN function_props
                         THEN function_props.extension ELSE "UNDEFINED"
            no_condition == get(unmangled_function_if_statements, level,
                                "NO_CONDITION", name)
            kept == \/ /\ no_condition # None
                       /\ no_condition.extension = "UNDEFINED"
                    \/ /\ get(unmangled_function_if_statements, level,
                              condition, name) # None
                       /\ extension # "UNDEFINED"
        IN
        /\ UNCHANGED <<id_counter, defined_function_variants,
                       builtin_id_declarations, parameter_declarations,
                       function_declarations, insert_functions_by_condition>>
        /\ name_declarations' =
                name_declarations \cup
                {<<name \o (IF "suffix" \in DOMAIN function_props
                            THEN function_props.suffix ELSE ""), name>>}
        /\ \A l \in LevelSet : \A c \in ConditionsAt(l) :
           \A n \in DeclaredNames :
                <<l, c, n>> # <<level, condition, name>> => RecordKept(l, c, n)
        /\ IF kept
           THEN UNCHANGED <<unmangled_function_if_statements,
                            unmangled_builtin_declarations>>
           ELSE /\ get(unmangled_function_if_statements', level, condition,
                       name) # None
                /\ get(unmangled_function_if_statements', level, condition,
                       name).extension = extension
                /\ unmangled_builtin_declarations' =
                        unmangled_builtin_declarations \cup {extension}]_vars

\* a declaration whose variants are all duplicates was just expanded: it
\* has its unmangled lookup record at a level where nothing is inserted
C3_Witness ==
    /\ pc = "process"
    /\ variant_index = 1
    /\ \A k \in DOMAIN function_variants :
            get_unique_identifier_name(template_args.name_with_suffix,
                                       get_parameters(function_variants[k]))
                \in defined_function_variants
    /\ has_key(unmangled_function_if_statements, template_args.level,
               condition, template_args.name)
    /\ \A i \in DOMAIN insert_functions_by_condition.keys :
       LET instructions ==
            insert_functions_by_condition.val[insert_functions_by_condition.keys[i]]
       IN \A j \in DOMAIN instructions :
            instructions[j].level # template_args.level

(* C4: once the unmangled lookup record of a name at a level exists under  *)
(* NO_CONDITION with extension UNDEFINED, no step (so no later conditioned *)
(* or extension-tagged declaration of the name at the level) changes that  *)
(* record or adds a record for the name under any condition at the level.  *)
C4_Shadowing ==
    [][\A l \in LevelSet : \A n \in DeclaredNames :
        LET no_condition == get(unmangled_function_if_statements, l,
                                "NO_CONDITION", n)
        IN (no_condition # None /\ no_condition.extension = "UNDEFINED")
            => \A c \in ConditionsAt(l) \cup {condition, "NO_CONDITION"} :
                    RecordKept(l, c, n)]_vars

\* a declaration in a conditioned group was just expanded while its name
\* was shadowed at its level: it has no record under its condition
C4_Witness ==
    /\ pc = "process"
    /\ variant_index = 1
    /\ condition # "NO_CONDITION"
    /\ get(unmangled_function_if_statements, template_args.level,
           "NO_CONDITION", template_args.name) # None
    /\ get(unmangled_function_if_statements, template_args.level,
           "NO_CONDITION", template_args.name).extension = "UNDEFINED"
    /\ ~has_key(unmangled_function_if_statements, template_args.level,
                condition, template_args.name)

(* C5: the two output documents are written only after parsing,            *)
(* expansion, identity assignment and assembly have all completed: while   *)
(* nothing is assembled nothing is written, and a run in which an error is *)
(* raised has written neither document.                                    *)
C5_OutputsOnlyAfterSuccess ==
    /\ pc = "error" => written = {}
    /\ pc \in {"parse", "process"} => written = {}
    /\ written # {} =>
        /\ err = ""
        /\ group_stack = <<>>
        /\ group = None
        /\ pending_groups = <<>>
        /\ output_strings # None
        /\ output_strings.builtin_id_declarations = builtin_id_declarations
        /\ output_strings.insert_functions =
                InsertFunctions(insert_functions_by_condition, 1)
    /\ "SymbolTable_autogen.cpp" \in written =>
            "ImmutableString_test_autogen.cpp" \in written /\ pc = "done"

\* a run that was asked for the intermediate JSON and ended in the error of
\* an undefined op: the JSON is written, the two documents are not
C5_Witness ==
    /\ pc = "error"
    /\ err = "function op not defined"
    /\ json_written
    /\ written = {}

\* p is a proper prefix of q
IsProperPrefix(p, q) == Len(p) < Len(q) /\ SubSeq(q, 1, Len(p)) = p

(* C6 as stated: of two materialized variants, the one whose declaration   *)
(* stands on the earlier line of the source has the smaller identity, also *)
(* when the declaration of a parent group follows a nested subgroup.       *)
C6_SourceLineOrder ==
    \A i, j \in DOMAIN function_declarations :
        function_declarations[i].line < function_declarations[j].line
            => i < j

(* C6, amended: identities follow the order in which the groups are        *)
(* processed, a group's own declarations before those of its subgroups:    *)
(* within one group the declaration on the earlier line has the smaller    *)
(* identities, the variants of one declaration are numbered in expansion   *)
(* order, and every declaration of a group has smaller identities than the *)
(* declarations of the groups nested in it, wherever they stand.           *)
C6_GroupOrder ==
    \A i, j \in DOMAIN function_declarations :
        LET first == function_declarations[i]
            second == function_declarations[j]
        IN
        /\ builtin_id_declarations[i].unique_name = first.unique_name
        /\ builtin_id_declarations[i].id = i - 1
        /\ (first.path = second.path /\ first.line < second.line) => i < j
        /\ (first.line = second.line /\ first.variant < second.variant)
                => i < j
        /\ IsProperPrefix(first.path, second.path) => i < j

\* a finished run in which a declaration of a group that stands after a
\* nested subgroup has a smaller identity than a declaration of the subgroup
C6_Witness ==
    /\ pc = "done"
    /\ \E i, j \in DOMAIN function_declarations :
        /\ i < j
        /\ IsProperPrefix(function_declarations[i].path,
                          function_declarations[j].path)
        /\ function_declarations[i].line > function_declarations[j].line

\* the default metadata of a declaration: what it holds besides its name,
\* its types and its place in the source
MetadataOf(function_props) ==
    [k \in DOMAIN function_props \ {"name", "returnType", "parameters",
                                    "line", "path"} |-> function_props[k]]

\* the declaration of the last line read
LastFunction ==
    LET functions == group_stack[Len(group_stack)].functions
    IN functions[Len(functions)]

\* a declaration was just read into the innermost open group
FunctionRead ==
    /\ pc = "parse"
    /\ lines # <<>>
    /\ lines[Len(lines)].kind = "function"

\* the groups open after the first i lines
Depth(i) ==
    Cardinality({j \in 1..i : lines[j].kind = "GROUP BEGIN"})
        - Cardinality({j \in 1..i : lines[j].kind = "GROUP END"})

\* the metadata of the latest DEFAULT METADATA line among the first i lines
\* that no group boundary follows
RECURSIVE SinceBoundary(_)
SinceBoundary(i) ==
    IF i = 0 THEN <<>>
    ELSE IF lines[i].kind = "DEFAULT METADATA" THEN lines[i].metadata
    ELSE IF lines[i].kind \in {"GROUP BEGIN", "GROUP END"} THEN <<>>
    ELSE SinceBoundary(i - 1)

\* the metadata of the latest DEFAULT METADATA line among the first i lines
\* that no GROUP END of a top-level group follows
RECURSIVE SinceTopLevelEnd(_)
SinceTopLevelEnd(i) ==
    IF i = 0 THEN <<>>
    ELSE IF lines[i].kind = "DEFAULT METADATA" THEN lines[i].metadata
    ELSE IF lines[i].kind = "GROUP END" /\ Depth(i) = 0 THEN <<>>
    ELSE SinceTopLevelEnd(i - 1)

(* C7 as stated: the default metadata of a declaration is the one of the   *)
(* latest DEFAULT METADATA line since the most recent group boundary       *)
(* (GROUP BEGIN or GROUP END) before the declaration.                      *)
C7_MetadataSinceBoundary ==
    FunctionRead => MetadataOf(LastFunction) = SinceBoundary(Len(lines) - 1)

(* C7, amended: the default metadata of a declaration is the one of the    *)
(* latest DEFAULT METADATA line since the most recent GROUP END of a       *)
(* top-level group (or the start of the input): a GROUP BEGIN and the      *)
(* GROUP END of a nested subgroup leave the default metadata as it is.     *)
C7_MetadataSinceTopLevelEnd ==
    FunctionRead => MetadataOf(LastFunction) = SinceTopLevelEnd(Len(lines) - 1)

\* a declaration of a parent group, read after the GROUP END of a subgroup
\* that held a DEFAULT METADATA line, has the metadata of that line
C7_Witness ==
    /\ FunctionRead
    /\ Len(lines) >= 5
    /\ Len(group_stack) = 1
    /\ lines[Len(lines) - 1].kind = "GROUP END"
    /\ lines[Len(lines) - 2].kind = "DEFAULT METADATA"
    /\ MetadataOf(LastFunction) = lines[Len(lines) - 2].metadata
    /\ MetadataOf(LastFunction) # <<>>

\* a GROUP END line is read while a group is open
OnGroupEnd ==
    /\ pc = "parse"
    /\ group_stack # <<>>
    /\ Len(lines') = Len(lines) + 1
    /\ lines'[Len(lines')].kind = "GROUP END"

(* C8: a GROUP END line whose name differs from the name of the innermost  *)
(* open group ends the run in an error: the group is neither popped nor    *)
(* registered, and no output document is written, then or later.  A group  *)
(* is popped and registered only under the name it has.                    *)
C8_GroupEndMismatchAborts ==
    /\ [][OnGroupEnd =>
            LET group_end_name == lines'[Len(lines')].name
                current_group == group_stack[Len(group_stack)]
            IN
            IF current_group.name # group_end_name
            THEN /\ pc' = "error"
                 /\ err' = "GROUP END: Unexpected function group name"
                 /\ UNCHANGED <<group_stack, parsed_functions, written>>
                 /\ written = {}
            ELSE /\ pc' = "parse"
                 /\ Len(group_stack') = Len(group_stack) - 1
                 /\ IF Len(group_stack) = 1
                    THEN /\ OD_Has(parsed_functions', group_end_name)
                         /\ parsed_functions'.val[group_end_name] = current_group
                    ELSE /\ group_end_name \in
                            DOMAIN group_stack'[Len(group_stack')].subgroups
                         /\ group_stack'[Len(group_stack')].subgroups[group_end_name]
                                = current_group]_vars
    /\ [](err = "GROUP END: Unexpected function group name" =>
            pc = "error" /\ written = {})

\* the run ended on the GROUP END of a subgroup that names another group
C8_Witness ==
    /\ pc = "error"
    /\ err = "GROUP END: Unexpected function group name"
    /\ Len(group_stack) = 2
    /\ lines[Len(lines)].kind = "GROUP END"
    /\ lines[Len(lines)].name # group_stack[Len(group_stack)].name
    /\ written = {}

\* the values of genType among the parameters of a declaration
ParameterTags(function_props) ==
    { function_props.parameters[i].genType :
        i \in { j \in DOMAIN function_props.parameters :
                    "genType" \in DOMAIN function_props.parameters[j] } }

\* the parameters of a declaration that carry a value of genType
GenericParameters(function_props) ==
    { j \in DOMAIN function_props.parameters :
        "genType" \in DOMAIN function_props.parameters[j] }

\* the basic type of a family of a sampler-or-image generic
FamilyOf(data, k) ==
    IF "basic" \in DOMAIN data
    THEN <<"", "I", "U">>[k] \o data.basic
    ELSE <<"Float", "Int", "UInt">>[k]

(* C9: the variants of a declaration are 4, of the dimensions 1, 2, 3, 4   *)
(* in this order, when its generic parameters are full-generic; 3, of the  *)
(* dimensions 2, 3, 4, when they are bare vectors; 3, of the families      *)
(* float, int, uint, when they are sampler-or-image generics; and the      *)
(* declaration itself when no parameter is generic.  No parameter of a     *)
(* variant carries a generic tag.                                          *)
C9_VariantCounts ==
    (pc = "process" /\ variant_index >= 1) =>
        LET function_props == group.functions[function_index]
            tags == ParameterTags(function_props)
            generic == GenericParameters(function_props)
        IN
        /\ tags = {} => function_variants = <<function_props>>
        /\ tags = {"yes"} =>
            /\ Len(function_variants) = 4
            /\ \A k \in 1..4 : \A j \in generic :
                    function_variants[k].parameters[j].primarySize = k
        /\ tags = {"vec"} =>
            /\ Len(function_variants) = 3
            /\ \A k \in 1..3 : \A j \in generic :
                    function_variants[k].parameters[j].primarySize = k + 1
        /\ tags = {"sampler_or_image"} =>
            /\ Len(function_variants) = 3
            /\ \A k \in 1..3 : \A j \in generic :
                    function_variants[k].parameters[j].basic =
                        FamilyOf(function_props.parameters[j], k)
        /\ \A k \in DOMAIN function_variants :
            /\ Len(function_variants[k].parameters)
                    = Len(function_props.parameters)
            /\ \A j \in DOMAIN function_variants[k].parameters :
                /\ "genType" \notin DOMAIN function_variants[k].parameters[j]
                /\ j \notin generic =>
                        function_variants[k].parameters[j]
                            = function_props.parameters[j]

\* a declaration with a bare vector and a concrete parameter is expanded
\* into its three variants
C9_Witness ==
    /\ pc = "process"
    /\ variant_index >= 1
    /\ ParameterTags(group.functions[function_index]) = {"vec"}
    /\ Len(group.functions[function_index].parameters) = 2
    /\ Cardinality(GenericParameters(group.functions[function_index])) = 1
    /\ Len(function_variants) = 3

\* the loop over group['functions'] stands on a declaration with a level and
\* an op, among whose parameters more than one value of genType occurs
OnMixedDeclaration ==
    /\ pc = "process"
    /\ group # None
    /\ variant_index = 0
    /\ function_index <= Len(group.functions)
    /\ {"level", "op"} \subseteq DOMAIN group.functions[function_index]
    /\ Cardinality(ParameterTags(group.functions[function_index])) > 1

(* C10: a declaration among whose parameters more than one distinct        *)
(* generic tag occurs makes gen_function_variants fail, whatever the order *)
(* of the parameters: the run ends in the error, no variant of the         *)
(* declaration is materialized and id_counter does not advance.            *)
C10_MixedGenericsRejected ==
    [][OnMixedDeclaration =>
        /\ pc' = "error"
        /\ err' = "Unexpected multiple values of genType"
        /\ function_variants' = function_variants
        /\ UNCHANGED table_vars]_vars

\* the run on a declaration with a sampler generic before a full generic
\* ended in the error, with no identity assigned
C10_Witness ==
    /\ pc = "error"
    /\ err = "Unexpected multiple values of genType"
    /\ id_counter = 0
    /\ builtin_id_declarations = <<>>
    /\ written = {}
    /\ \E i \in DOMAIN lines :
        /\ lines[i].kind = "function"
        /\ Len(lines[i].parameters) = 2
        /\ lines[i].parameters[1].t = "gsampler2D"
        /\ lines[i].parameters[2].t = "genType"

\* the lowest count bits of a number, the lowest first
RECURSIVE BitsFrom(_, _)
BitsFrom(n, count) ==
    IF count = 0 THEN <<>>
    ELSE <<n % 2>> \o BitsFrom(n \div 2, count - 1)

\* the 32 bits of a value held as two limbs, the lowest first
BitsOf(limbs) == BitsFrom(limbs[1], 16) \o BitsFrom(limbs[2], 16)

\* bits shifted left by k places, within 32 bits
ShiftLeft(bits, k) == [i \in 1..k |-> 0] \o SubSeq(bits, 1, 32 - k)

\* the sum of two 32-bit values from place i on, modulo 2^32
RECURSIVE SumFrom(_, _, _, _)
SumFrom(a, b, i, carry) ==
    IF i > 32 THEN <<>>
    ELSE <<(a[i] + b[i] + carry) % 2>>
            \o SumFrom(a, b, i + 1, (a[i] + b[i] + carry) \div 2)

Sum32(a, b) == SumFrom(a, b, 1, 0)

\* one round of FNV-1a on 32 bits: the exclusive or with the character
\* code, then the product with 2^24 + 2^8 + 2^7 + 2^4 + 2 + 1 by shifts
Fnv1aRound(bits, code) ==
    LET low == BitsFrom(code, 8)
        x == [i \in 1..8 |-> (bits[i] + low[i]) % 2] \o SubSeq(bits, 9, 32)
    IN Sum32(Sum32(Sum32(x, ShiftLeft(x, 1)),
                   Sum32(ShiftLeft(x, 4), ShiftLeft(x, 7))),
             Sum32(ShiftLeft(x, 8), ShiftLeft(x, 24)))

\* FNV-1a of the character codes from the i-th on
RECURSIVE Fnv1a(_, _, _)
Fnv1a(codes, i, bits) ==
    IF i > Len(codes) THEN bits
    ELSE Fnv1a(codes, i + 1, Fnv1aRound(bits, codes[i]))

\* the character codes of a name
CodesOf(str) == [i \in DOMAIN Characters(str) |-> ord[Characters(str)[i]]]

\* the first place, <<level, condition, name>>, hash32 is called with a name
PlacesOf(str) ==
    { place \in (1..Len(levels)) \X (1..3) \X (1..2) :
        LET of_level == unmangled_function_if_statements[levels[place[1]]]
        IN /\ place[2] <= Len(of_level.keys)
           /\ place[3] <= Len(of_level.val[of_level.keys[place[2]]].keys)
           /\ of_level.val[of_level.keys[place[2]]].keys[place[3]] = str }

PlaceBefore(p, q) ==
    \/ p[1] < q[1]
    \/ p[1] = q[1] /\ p[2] < q[2]
    \/ p[1] = q[1] /\ p[2] = q[2] /\ p[3] < q[3]

FirstHashedBefore(first, second) ==
    \E p \in PlacesOf(first) : \A q \in PlacesOf(second) : PlaceBefore(p, q)

(* C11: hash32 of a name is the 32-bit FNV-1a of its character codes, from *)
(* 0x811c9dc5 with the prime 16777619, a value of 0 .. 2^32-1 (hash32 of   *)
(* "a" is 0xe40c292c); the assertions recorded pair every hashed name with *)
(* this value, one assertion for a name, in the order the names were first *)
(* hashed.                                                                 *)
C11_Hash32IsFnv1a ==
    /\ hash32("a") = <<10540, 58380>>
    /\ pc \in {"write", "done"} =>
        LET tests == output_strings.script_generated_hash_tests IN
        /\ \A k \in DOMAIN tests :
            /\ Len(tests[k].hash) = 2
            /\ \A l \in 1..2 : tests[k].hash[l] \in 0..(Limb - 1)
            /\ BitsOf(tests[k].hash) =
                    Fnv1a(CodesOf(tests[k].str), 1, BitsOf(<<40389, 33052>>))
            /\ tests[k].hash = hash32(tests[k].str)
            /\ PlacesOf(tests[k].str) # {}
        /\ \A k, m \in DOMAIN tests :
            k < m => /\ tests[k].str # tests[m].str
                     /\ FirstHashedBefore(tests[k].str, tests[m].str)
        /\ \A name \in FunctionNames :
            PlacesOf(name) # {} => \E k \in DOMAIN tests : tests[k].str = name

\* a finished run that hashed two names, the second declared first and one
\* of them at two levels
C11_Witness ==
    /\ pc = "done"
    /\ Len(output_strings.script_generated_hash_tests) = 2
    /\ lines[3].name = output_strings.script_generated_hash_tests[2].str
    /\ lines[5].name = output_strings.script_generated_hash_tests[1].str
    /\ Len(Characters(lines[5].name)) = 2

\* a second run on the same input is done
SecondRunDone == pc = "done" /\ previous # None

Expanded == pc = "process" /\ group # None /\ variant_index >= 1

\* the declaration has a generic return type
GenericReturn(function_props) == "genType" \in DOMAIN function_props.returnType

TypesOf(line) == [i \in DOMAIN line.parameters |-> line.parameters[i].t]

\* two declaration lines differ in the qualifier of a parameter, and in
\* nothing else
DifferInQualifierOnly(first, second) ==
    /\ first.name = second.name
    /\ TypesOf(first) = TypesOf(second)
    /\ first.parameters # second.parameters

\* the run on two declarations is done
TwoDeclarationsDone ==
    /\ pc = "done"
    /\ Len(lines) >= 4
    /\ lines[3].kind = "function"
    /\ lines[4].kind = "function"

\* the text of a key without markers: the name, '_', and for every parameter
\* the code of its type and '_'
RECURSIVE PlainKey(_, _)
PlainKey(types, i) ==
    IF i > Len(types) THEN ""
    ELSE (IF types[i] = "vec3" THEN "3f_" ELSE "f_") \o PlainKey(types, i + 1)

\* the claim as it is made: two declarations that differ only in a
\* qualifier have two keys, and both get their identities
C14_QualifierInKey ==
    (TwoDeclarationsDone /\ DifferInQualifierOnly(lines[3], lines[4])) =>
        /\ Cardinality(defined_function_variants) = 2
        /\ Len(function_declarations) = 2
        /\ function_declarations[2].line = 4

(* C14: the key that identifies a variant is its name and suffix, '_', and *)
(* the mangled name of every parameter followed by '_': no marker of an    *)
(* out or inout parameter, and no 'empty' for no parameter.  Declarations  *)
(* of the same name and parameter types have the same key, whatever the    *)
(* qualifiers: only the first gets an identity.                            *)
C14_QualifierNotInKey ==
    TwoDeclarationsDone =>
        /\ defined_function_variants =
                { lines[l].name \o "_" \o PlainKey(TypesOf(lines[l]), 1) :
                    l \in {3, 4} }
        /\ (lines[3].name = lines[4].name
                /\ TypesOf(lines[3]) = TypesOf(lines[4])) =>
            /\ id_counter = 1
            /\ Len(function_declarations) = 1
            /\ function_declarations[1].line = 3
        /\ TypesOf(lines[3]) # TypesOf(lines[4]) =>
            /\ id_counter = 2
            /\ Len(function_declarations) = 2

\* the run on f(float) and f(out float) gave one identity, to the first
C14_Witness ==
    /\ TwoDeclarationsDone
    /\ DifferInQualifierOnly(lines[3], lines[4])
    /\ Len(lines[3].parameters) = 1
    /\ lines[4].parameters[1].q = "out "
    /\ id_counter = 1
    /\ function_declarations[1].line = 3

\* the condition a GROUP BEGIN line gives its group
OwnCondition(line) ==
    IF "condition" \in DOMAIN line.metadata THEN line.metadata.condition
    ELSE "NO_CONDITION"

\* the run is done on an input of a group and a nested group, with two
\* conditions, that declare the same name at the same level with no
\* extension
SameNameTwoConditions ==
    /\ pc = "done"
    /\ Len(lines) = 7
    /\ OwnCondition(lines[1]) = "c1"
    /\ OwnCondition(lines[4]) = "c2"
    /\ lines[3].name = lines[5].name
    /\ "extension" \notin DOMAIN lines[2].metadata

\* the claim as it is made: the name keeps the record of the first group,
\* and the second group files none
C15_FirstWriterWins ==
    SameNameTwoConditions =>
        /\ has_key(unmangled_function_if_statements, lines[2].metadata.level,
                   "c1", lines[3].name)
        /\ ~has_key(unmangled_function_if_statements, lines[2].metadata.level,
                    "c2", lines[5].name)

(* C15: when two groups with two conditions declare the same name at the   *)
(* same level with no extension, and the name has no unconditioned record  *)
(* there, each group files its lookup record under its own condition: the  *)
(* level holds the record of the first group and the record of the second. *)
C15_EachConditionFiles ==
    SameNameTwoConditions =>
        LET level == lines[2].metadata.level
            name == lines[3].name
            objs == unmangled_function_if_statements
        IN
        /\ ~has_key(objs, level, "NO_CONDITION", name)
        /\ objs[level].keys = <<"c1", "c2">>
        /\ \A cond \in {"c1", "c2"} :
            /\ has_key(objs, level, cond, name)
            /\ objs[level].val[cond].keys = <<name>>
            /\ objs[level].val[cond].val[name].extension = "UNDEFINED"

\* the run on f under c1 and f under c2 is done, with one identity
C15_Witness ==
    /\ SameNameTwoConditions
    /\ lines[3].name = "f"
    /\ id_counter = 1
    /\ Len(output_strings.get_unmangled_builtin) > 4

\* the condition of its own of the group of a name, in the inputs of a group
\* A and a nested group B
GroupCondition(name) ==
    IF name = "A" THEN OwnCondition(lines[1]) ELSE OwnCondition(lines[4])

\* the conditions under whose insertion instructions a variant is found
InsertedUnder(unique_name) ==
    { cond \in DOMAIN insert_functions_by_condition.val :
        \E i \in DOMAIN insert_functions_by_condition.val[cond] :
            insert_functions_by_condition.val[cond][i].unique_name
                = unique_name }

\* the run on a group and a nested group is done
NestedDone == pc = "done" /\ Len(lines) = 7

(* C16: a nested group does not take the condition of the group around it. *)
(* Every variant is inserted under the condition of its own of the group   *)
(* that declares it, under NO_CONDITION when that group has none, and      *)
(* under no other; the name of a declaration of a subgroup without a       *)
(* condition has its lookup record under NO_CONDITION, and none under the  *)
(* condition of the parent unless the parent declares the name.            *)
C16_NoInheritedCondition ==
    NestedDone =>
        /\ \A k \in DOMAIN function_declarations :
            LET declared == function_declarations[k]
                owner == declared.path[Len(declared.path)]
            IN InsertedUnder(declared.unique_name) = {GroupCondition(owner)}
        /\ GroupCondition("B") = "NO_CONDITION" =>
            /\ has_key(unmangled_function_if_statements,
                       lines[2].metadata.level, "NO_CONDITION", lines[5].name)
            /\ lines[3].name # lines[5].name =>
                \A cond \in {"c1", "c2"} :
                    ~has_key(unmangled_function_if_statements,
                             lines[2].metadata.level, cond, lines[5].name)

\* the run on a group with a condition and a nested group without one is
\* done: the declaration of the nested group is inserted with no condition
C16_Witness ==
    /\ NestedDone
    /\ GroupCondition("A") = "c1"
    /\ GroupCondition("B") = "NO_CONDITION"
    /\ Len(function_declarations) = 2
    /\ function_declarations[2].path = <<"A", "B">>
    /\ InsertedUnder(function_declarations[2].unique_name) = {"NO_CONDITION"}
    /\ InsertedUnder(function_declarations[1].unique_name) = {"c1"}

=============================================================================
